---- MODULE Spec2Model ----
(***************************************************************************)
(* A model of the diagonal-Sudoku solver of src/solution.py (class Sudoku):*)
(* the unit/peer topology built by the constructor, the three propagation  *)
(* rules, the reduce_puzzle loop, the recursive search and the solve entry *)
(* point, together with the class-level assignment log.                    *)
(*                                                                         *)
(* Encoding.  A character of a grid or of a candidate string is a number:  *)
(* 0 is '.', 1..9 are the digits '1'..'9'.  A Python string is a sequence  *)
(* of characters.  A box name r+c (row letter, column digit) is the number *)
(* (r-1)*9+c, so that the order of box names as strings is the order of    *)
(* the numbers and the order of self.boxes is 1, 2, ..., 81.               *)
(***************************************************************************)
EXTENDS Integers, Sequences, FiniteSets, TLC

\* ------------------------------------------------------------ topology

\* rows = 'ABCDEFGHI' and cols = '123456789', as sequences of 1..9.
rows == <<1, 2, 3, 4, 5, 6, 7, 8, 9>>

cols == <<1, 2, 3, 4, 5, 6, 7, 8, 9>>

\* The two-character name a+b of a box.
Name(a, b) == (a - 1) * 9 + b

\* [x for x in s], the elements of a sequence.
Range(s) == {s[i] : i \in 1..Len(s)}

\* The list [f[1], ..., f[n]] of a function f on 1..n, kept as a table of its
\* values.
Table(f) == f \o <<>>

\* cross(A, B) = [a+b for a in A for b in B].
cross(A, B) == Table([i \in 1..(Len(A) * Len(B)) |->
                        Name(A[((i - 1) \div Len(B)) + 1], B[((i - 1) % Len(B)) + 1])])

boxes == cross(rows, cols)

row_units == Table([i \in 1..9 |-> cross(<<rows[i]>>, cols)])

column_units == Table([i \in 1..9 |-> cross(rows, <<cols[i]>>)])

\* 'ABC', 'DEF', 'GHI' and '123', '456', '789'.
Bands == <<<<1, 2, 3>>, <<4, 5, 6>>, <<7, 8, 9>>>>

square_units == Table([i \in 1..9 |-> cross(Bands[((i - 1) \div 3) + 1], Bands[((i - 1) % 3) + 1])])

\* zip(rows, cols) and zip(rows, reversed(cols)).
diag_units == << Table([i \in 1..9 |-> Name(rows[i], cols[i])]),
                 Table([i \in 1..9 |-> Name(rows[i], cols[10 - i])]) >>

unitlist == row_units \o column_units \o square_units \o diag_units

\* [u for u in unitlist if s in u]
UnitsOf(s) == SelectSeq(unitlist, LAMBDA u : s \in Range(u))

units == Table([s \in 1..81 |-> UnitsOf(s)])

\* PeersOf with a slip: the box itself is not taken out.
PeersOf_WithSelf(s) == UNION {Range(units[s][i]) : i \in 1..Len(units[s])}

\* PeersOf with a slip: only the row, the column and the square of the box count.
PeersOf_NoDiagonals(s) == (UNION {Range(units[s][i]) : i \in 1..3}) \ {s}

\* set(sum(units[s], [])) - set([s])
PeersOf(s) == (UNION {Range(units[s][i]) : i \in 1..Len(units[s])}) \ {s}

peers == Table([s \in 1..81 |-> PeersOf(s)])

\* self.peers[s] as a list, in the order of self.boxes (the order in which the
\* model walks the set).
peerlist == Table([s \in 1..81 |-> SelectSeq(boxes, LAMBDA b : b \in peers[s])])

\* ------------------------------------------------------------ strings

\* replace with a slip: old is taken out of the string of all the digits and not
\* out of str.
replace_FromAll(str, old) == SelectSeq(cols, LAMBDA ch : <<ch>> # old)

\* str.replace(old, ''): every non-overlapping occurrence of old, found from the
\* left, is removed; an empty old leaves the string as it is.
RECURSIVE replace(_, _)
replace(str, old) ==
  IF Len(old) = 0 \/ Len(str) < Len(old) THEN str
  ELSE IF SubSeq(str, 1, Len(old)) = old
       THEN replace(SubSeq(str, Len(old) + 1, Len(str)), old)
       ELSE <<Head(str)>> \o replace(Tail(str), old)

\* ch in str, for a single character ch.
In(ch, str) == \E i \in 1..Len(str) : str[i] = ch

\* len([box for box in values.keys() if len(values[box]) == n])
CountLen(values, n) == Cardinality({b \in 1..81 : Len(values[b]) = n})

\* ------------------------------------------------------------ the board and the log

\* A handler works on a record st: st.values is the dictionary it updates in
\* place, st.appended the snapshots it has appended to self.assignments so far,
\* st.writes the changes it has made to the dictionary so far (box, the string
\* before, the string after, the rule that made it and the box the rule was at).
Start(values) == [values |-> values, appended |-> <<>>, writes |-> <<>>]

\* assign_value with a slip: an empty string is never written.
assign_value_NeverEmpty(st, box, value, by, src) ==
  IF st.values[box] = value \/ value = <<>> THEN st
  ELSE LET nv == [st.values EXCEPT ![box] = value]
       IN [values   |-> nv,
           appended |-> IF Len(value) = 1 THEN Append(st.appended, nv) ELSE st.appended,
           writes   |-> Append(st.writes, [box |-> box, old |-> st.values[box],
                                           new |-> value, by |-> by, src |-> src])]

\* assign_value(values, box, value).  by and src only label the entry of writes.
assign_value(st, box, value, by, src) ==
  IF st.values[box] = value THEN st
  ELSE LET nv == [st.values EXCEPT ![box] = value]
       IN [values   |-> nv,
           appended |-> IF Len(value) = 1 THEN Append(st.appended, nv) ELSE st.appended,
           writes   |-> Append(st.writes, [box |-> box, old |-> st.values[box],
                                           new |-> value, by |-> by, src |-> src])]

\* The exit test of a loop "for x in list" at index i.  It reads st, so that the
\* step that produced st is evaluated before the next step begins.
AtEnd(st, i, list) == DOMAIN st # {} /\ i > Len(list)

\* ------------------------------------------------------------ eliminate

\* for peer in self.peers[box]: assign_value(values, peer, values[peer].replace(digit, ''))
\* A Python set has no fixed order of iteration; the model walks it in ascending
\* order.  The dictionary after the loop is the same for every order, since each
\* peer is written once and independently of the others.
RECURSIVE EliminatePeers(_, _, _, _)
EliminatePeers(st, box, digit, i) ==
  IF AtEnd(st, i, peerlist[box]) THEN st
  ELSE LET peer == peerlist[box][i]
       IN EliminatePeers(assign_value(st, peer, replace(st.values[peer], digit),
                                      "eliminate", box),
                         box, digit, i + 1)

\* for box in solved_values: digit = values[box]; ...
RECURSIVE EliminateBoxes(_, _, _)
EliminateBoxes(st, solved_values, j) ==
  IF AtEnd(st, j, solved_values) THEN st
  ELSE LET box == solved_values[j]
       IN EliminateBoxes(EliminatePeers(st, box, st.values[box], 1), solved_values, j + 1)

eliminate(st) ==
  EliminateBoxes(st, SelectSeq(boxes, LAMBDA box : Len(st.values[box]) = 1), 1)

\* ------------------------------------------------------------ only_choice

\* for digit in '123456789' (the digits are cols): dplaces = [...]; if len(dplaces) == 1: assign_value(...)
RECURSIVE OnlyChoiceDigits(_, _, _)
OnlyChoiceDigits(st, unit, digit) ==
  IF AtEnd(st, digit, cols) THEN st
  ELSE LET dplaces == SelectSeq(unit, LAMBDA box : In(digit, st.values[box]))
       IN OnlyChoiceDigits(IF Len(dplaces) = 1
                           THEN assign_value(st, dplaces[1], <<digit>>, "only_choice", dplaces[1])
                           ELSE st,
                           unit, digit + 1)

\* for unit in self.unitlist: ...
RECURSIVE OnlyChoiceUnits(_, _)
OnlyChoiceUnits(st, k) ==
  IF AtEnd(st, k, unitlist) THEN st
  ELSE OnlyChoiceUnits(OnlyChoiceDigits(st, unitlist[k], 1), k + 1)

only_choice(st) == OnlyChoiceUnits(st, 1)

\* ------------------------------------------------------------ naked_twins

\* The dictionary twins of one unit, as the sequence of its items in the order of
\* insertion: each item is a candidate string and the boxes of the unit holding it.
RECURSIVE Twins(_, _, _, _)
Twins(values, unit, i, twins) ==
  IF i > Len(unit) THEN twins
  ELSE LET inner_box == unit[i]
           inner_value == values[inner_box]
           at == {k \in 1..Len(twins) : twins[k].key = inner_value}
       IN Twins(values, unit, i + 1,
                IF at # {}
                THEN LET k == CHOOSE x \in at : TRUE
                     IN [twins EXCEPT ![k].val = Append(@, inner_box)]
                ELSE Append(twins, [key |-> inner_value, val |-> <<inner_box>>]))

\* naked_candidates with a slip: the candidates are not counted against the boxes.
naked_candidates_AnySize(twins) == SelectSeq(twins, LAMBDA kv : Len(kv.val) > 1)

\* {k:v for k,v in twins.items() if len(v) > 1 and len(k) == len(v)}
naked_candidates(twins) ==
  SelectSeq(twins, LAMBDA kv : Len(kv.val) > 1 /\ Len(kv.key) = Len(kv.val))

\* for box_to_eliminate in boxes_to_eliminate: if value in values[...]: assign_value(...)
RECURSIVE NakedBoxes(_, _, _, _, _)
NakedBoxes(st, box, value, boxes_to_eliminate, i) ==
  IF AtEnd(st, i, boxes_to_eliminate) THEN st
  ELSE LET box_to_eliminate == boxes_to_eliminate[i]
       IN NakedBoxes(IF In(value, st.values[box_to_eliminate])
                     THEN assign_value(st, box_to_eliminate,
                                       replace(st.values[box_to_eliminate], <<value>>),
                                       "naked_twins", box)
                     ELSE st,
                     box, value, boxes_to_eliminate, i + 1)

\* for value in candidate_values: boxes_to_eliminate = [...]; ...
RECURSIVE NakedValues(_, _, _, _, _)
NakedValues(st, box, unit, cand, i) ==
  IF AtEnd(st, i, cand.key) THEN st
  ELSE NakedValues(NakedBoxes(st, box, cand.key[i],
                              SelectSeq(unit, LAMBDA unit_box : unit_box \notin Range(cand.val)),
                              1),
                   box, unit, cand, i + 1)

\* for candidate_values, candidate_boxes in naked_candidates.items(): ...
RECURSIVE NakedCandidates(_, _, _, _, _)
NakedCandidates(st, box, unit, cands, i) ==
  IF AtEnd(st, i, cands) THEN st
  ELSE NakedCandidates(NakedValues(st, box, unit, cands[i], 1), box, unit, cands, i + 1)

\* for unit in self.units[box]: ...
RECURSIVE NakedUnits(_, _, _)
NakedUnits(st, box, i) ==
  IF AtEnd(st, i, units[box]) THEN st
  ELSE LET unit == units[box][i]
       IN NakedUnits(NakedCandidates(st, box, unit,
                                     naked_candidates(Twins(st.values, unit, 1, <<>>)), 1),
                     box, i + 1)

\* for box in values: ...   (a dictionary built by grid_values, or a copy of one,
\* is walked in the order of self.boxes)
RECURSIVE NakedAll(_, _)
NakedAll(st, j) ==
  IF AtEnd(st, j, boxes) THEN st
  ELSE NakedAll(NakedUnits(st, boxes[j], 1), j + 1)

naked_twins(st) == NakedAll(st, 1)

\* ------------------------------------------------------------ grid_values

\* dict(zip(self.boxes, grid)) with '.' replaced by self.cols.
grid_values(grid) == Table([b \in 1..81 |-> IF grid[b] = 0 THEN cols ELSE <<grid[b]>>])

\* ------------------------------------------------------------ reduce_puzzle

\* One pass of the loop of reduce_puzzle: eliminate, naked_twins, only_choice.
Pass(st) == only_choice(naked_twins(eliminate(st)))

\* reduce_puzzle run to its return as one function: failed is TRUE when it
\* returns False, and st.values is then the dictionary as it was left.
RECURSIVE reduce_puzzle(_)
reduce_puzzle(st) ==
  LET solved_values_before == CountLen(st.values, 1)
      after == Pass(st)
      solved_values_after == CountLen(after.values, 1)
      stalled == solved_values_before = solved_values_after
  IN IF CountLen(after.values, 0) # 0 THEN [failed |-> TRUE, st |-> after]
     ELSE IF stalled THEN [failed |-> FALSE, st |-> after]
     ELSE reduce_puzzle(after)

\* ------------------------------------------------------------ the inputs

\* The grid of the program's own run (the __main__ block).
diag_sudoku_grid ==
  << 2, 0, 0, 0, 0, 0, 0, 0, 0,
     0, 0, 0, 0, 0, 6, 2, 0, 0,
     0, 0, 1, 0, 0, 0, 0, 7, 0,
     0, 0, 6, 0, 0, 8, 0, 0, 0,
     3, 0, 0, 0, 9, 0, 0, 0, 7,
     0, 0, 0, 6, 0, 0, 4, 0, 0,
     0, 4, 0, 0, 0, 0, 8, 0, 0,
     0, 0, 5, 2, 0, 0, 0, 0, 0,
     0, 0, 0, 0, 0, 0, 0, 0, 3 >>

\* The board solve returns for diag_sudoku_grid: a complete valid diagonal board.
Solved ==
  << 2, 6, 7, 9, 4, 5, 3, 8, 1,
     8, 5, 3, 7, 1, 6, 2, 4, 9,
     4, 9, 1, 8, 2, 3, 5, 7, 6,
     5, 7, 6, 4, 3, 8, 1, 9, 2,
     3, 8, 4, 1, 9, 2, 6, 5, 7,
     1, 2, 9, 6, 5, 7, 4, 3, 8,
     6, 4, 2, 3, 7, 9, 8, 1, 5,
     9, 3, 5, 2, 8, 1, 7, 6, 4,
     7, 1, 8, 5, 6, 4, 9, 2, 3 >>

\* A grid on which reduce_puzzle stops after a pass that still changed the board.
Unstable ==
  << 5, 0, 7, 0, 0, 0, 0, 0, 3,
     0, 3, 4, 0, 0, 0, 2, 0, 0,
     0, 0, 1, 0, 0, 3, 0, 0, 0,
     7, 5, 6, 4, 2, 1, 3, 8, 9,
     2, 4, 3, 0, 8, 0, 0, 0, 7,
     1, 8, 9, 0, 0, 7, 4, 2, 6,
     0, 0, 2, 0, 0, 0, 9, 0, 5,
     0, 0, 5, 0, 0, 0, 0, 6, 0,
     0, 0, 8, 0, 0, 0, 0, 0, 2 >>

\* A grid that propagation accepts and whose every branch then fails.
DeadEnd ==
  << 2, 6, 7, 0, 0, 0, 0, 4, 8,
     8, 9, 3, 0, 0, 4, 2, 0, 0,
     4, 5, 1, 8, 0, 2, 0, 0, 0,
     5, 3, 6, 4, 8, 7, 0, 0, 2,
     7, 4, 2, 0, 0, 0, 8, 0, 0,
     9, 1, 8, 0, 2, 0, 4, 0, 0,
     0, 8, 4, 2, 0, 0, 0, 0, 0,
     0, 2, 5, 0, 0, 0, 0, 8, 4,
     0, 7, 9, 0, 4, 8, 0, 2, 0 >>

\* The all-dots grid.
Empty == Table([b \in 1..81 |-> 0])

\* The grid g with the character of box b replaced by ch.
Put(g, b, ch) == [g EXCEPT ![b] = ch]

\* The boxes of a grid that the inputs edit: the first MaxEditBox boxes.
MaxEditBox == 45

\* The number of solve calls of one run, and of Sudoku instances making them.
MaxCalls == 2

NumInstances == 2

Instances == 1..NumInstances

\* The digits given to the peers of box b in grid g.
PeerDigits(g, b) == {g[p] : p \in peers[b]} \ {0}

\* The grids of a run of one call: the named grids, the solved board with one
\* box blanked or overwritten by any digit, and the program's grid with one box
\* overwritten by a digit that one of its peers is given.
Grids ==
  {diag_sudoku_grid, Empty, Solved, Unstable, DeadEnd}
  \cup {Put(Solved, b, ch) : b \in 1..MaxEditBox, ch \in 0..9}
  \cup UNION {{Put(diag_sudoku_grid, b, ch) : ch \in PeerDigits(diag_sudoku_grid, b)}
              : b \in 1..MaxEditBox}

\* The grids of a run of several calls: the solved board with its first box
\* blanked, which is solved with one assignment to log, and with its first box
\* given the digit of the second, which is contradictory.
QuickGrids == {Put(Solved, 1, 0), Put(Solved, 1, Solved[2])}

\* The calls of a run, in order: one call on any grid of Grids, or up to MaxCalls
\* calls on quick grids, each on any instance.  Instances are alike, so the
\* single call of a run of one call is made on instance 1.
RECURSIVE CallSeqs(_)
CallSeqs(n) ==
  IF n = 0 THEN {<<>>}
  ELSE LET shorter == CallSeqs(n - 1)
       IN shorter \cup {Append(cs, [self |-> i, grid |-> g]) :
                           cs \in {c \in shorter : Len(c) = n - 1},
                           i \in Instances, g \in QuickGrids}

Scripts == {<<[self |-> 1, grid |-> g]>> : g \in Grids} \cup (CallSeqs(MaxCalls) \ {<<>>})

\* ------------------------------------------------------------ the state

VARIABLES
  todo,         \* the solve calls still to be made, in order
  grid,         \* the grid of the current (or last) solve call
  self,         \* the instance it is made on
  top,          \* "idle" before the first call, "solving", "done" after a return
  stack,        \* the frames of search, the running call last
  ret,          \* what the search call that returned last has returned
  result,       \* what the solve call that returned last has returned
  assignments,  \* Sudoku.assignments, the class attribute all instances share
  writes,       \* the changes the last step made to a board
  logAtCall     \* len(assignments) when the current solve call began

vars == <<todo, grid, self, top, stack, ret, result, assignments, writes, logAtCall>>

\* The values of Python that search and solve return.
False == [kind |-> "False", values |-> <<>>]

None == [kind |-> "None", values |-> <<>>]

Dict(values) == [kind |-> "dict", values |-> values]

\* Nothing returned yet (not a value of the program).
Pending == [kind |-> "pending", values |-> <<>>]

\* bool(x) for those values: a dictionary of 81 boxes is true, False and None are not.
Truthy(x) == x.kind = "dict"

\* The frame of a call search(values).  pc is where the call stands; failed is
\* whether reduce_puzzle returned False; s is the box chosen for branching and k
\* the index in values[s] of the next candidate; solved_values_before is the
\* local of reduce_puzzle; passes counts the passes of its loop, and entry is the
\* board the call was made on.
Frame(values) ==
  [values |-> values, pc |-> "eliminate", failed |-> FALSE, s |-> 0, k |-> 0,
   solved_values_before |-> 0, passes |-> 0, entry |-> values]

Top == stack[Len(stack)]

\* The stack with its last frame replaced by f, and with that frame dropped.
SetTop(f) == [stack EXCEPT ![Len(stack)] = f]

Pop == SubSeq(stack, 1, Len(stack) - 1)

Init ==
  /\ todo \in Scripts
  /\ grid = Empty
  /\ self = 1
  /\ top = "idle"
  /\ stack = <<>>
  /\ ret = Pending
  /\ result = Pending
  /\ assignments = <<>>
  /\ writes = <<>>
  /\ logAtCall = 0

\* ------------------------------------------------------------ solve

\* solve(grid), up to the call of search: values = grid_values(grid); search(values).
SolveCall ==
  /\ top \in {"idle", "done"}
  /\ todo # <<>>
  /\ todo' = Tail(todo)
  /\ grid' = Head(todo).grid
  /\ self' = Head(todo).self
  /\ top' = "solving"
  /\ stack' = <<Frame(grid_values(Head(todo).grid))>>
  /\ ret' = Pending
  /\ writes' = <<>>
  /\ logAtCall' = Len(assignments)
  /\ UNCHANGED <<result, assignments>>

\* solve, from the return of search: visualize() hands self.assignments to the
\* visualizer and changes nothing; display is off; return values.
SolveReturn ==
  /\ top = "solving"
  /\ stack = <<>>
  /\ ret # Pending
  /\ result' = ret
  /\ top' = "done"
  /\ writes' = <<>>
  /\ UNCHANGED <<todo, grid, self, stack, ret, assignments, logAtCall>>

\* ------------------------------------------------------------ reduce_puzzle, step by step

\* A rule of the loop applied to the board of the running call: the board is
\* updated in place, the snapshots go to the log.
Apply(st, f) ==
  /\ stack' = SetTop([f EXCEPT !.values = st.values])
  /\ assignments' = assignments \o st.appended
  /\ writes' = st.writes
  /\ UNCHANGED <<todo, grid, self, top, ret, result, logAtCall>>

\* solved_values_before = ...; values = self.eliminate(values)
Eliminate ==
  /\ stack # <<>>
  /\ Top.pc = "eliminate"
  /\ Apply(eliminate(Start(Top.values)),
           [Top EXCEPT !.pc = "naked_twins",
                       !.solved_values_before = CountLen(Top.values, 1),
                       !.passes = @ + 1])

\* values = self.naked_twins(values)
NakedTwins ==
  /\ stack # <<>>
  /\ Top.pc = "naked_twins"
  /\ Apply(naked_twins(Start(Top.values)), [Top EXCEPT !.pc = "only_choice"])

\* values = self.only_choice(values)
OnlyChoice ==
  /\ stack # <<>>
  /\ Top.pc = "only_choice"
  /\ Apply(only_choice(Start(Top.values)), [Top EXCEPT !.pc = "stalled"])

\* solved_values_after = ...; stalled = ...; if an empty box: return False;
\* then the test of the while loop: another pass, or return values.
ReduceCheck ==
  /\ stack # <<>>
  /\ Top.pc = "stalled"
  /\ LET solved_values_after == CountLen(Top.values, 1)
         stalled == Top.solved_values_before = solved_values_after
     IN stack' = SetTop(IF CountLen(Top.values, 0) # 0
                        THEN [Top EXCEPT !.pc = "reduced", !.failed = TRUE]
                        ELSE IF stalled THEN [Top EXCEPT !.pc = "reduced"]
                        ELSE [Top EXCEPT !.pc = "eliminate"])
  /\ writes' = <<>>
  /\ UNCHANGED <<todo, grid, self, top, ret, result, assignments, logAtCall>>

\* ------------------------------------------------------------ search

\* A search call returns x to its caller.
Return(x) ==
  /\ stack' = Pop
  /\ ret' = x
  /\ writes' = <<>>
  /\ UNCHANGED <<todo, grid, self, top, result, assignments, logAtCall>>

\* if values is False: return False
SearchFailed ==
  /\ stack # <<>>
  /\ Top.pc = "reduced"
  /\ Top.failed
  /\ Return(False)

\* if all(len(values[s]) == 1 for s in self.boxes): return values
SearchSolved ==
  /\ stack # <<>>
  /\ Top.pc = "reduced"
  /\ ~Top.failed
  /\ \A s \in Range(boxes) : Len(Top.values[s]) = 1
  /\ Return(Dict(Top.values))

\* min((len(values[s]), s) for s in self.boxes if len(values[s]) > 1): the
\* pairs are ordered by length and then by box name.
MinBox(values) ==
  CHOOSE s \in Range(boxes) :
    /\ Len(values[s]) > 1
    /\ \A t \in Range(boxes) :
         Len(values[t]) > 1 =>
           \/ Len(values[s]) < Len(values[t])
           \/ (Len(values[s]) = Len(values[t]) /\ s <= t)

\* n,s = min(...), and the for loop over values[s] begins.
SearchChoose ==
  /\ stack # <<>>
  /\ Top.pc = "reduced"
  /\ ~Top.failed
  /\ \E s \in Range(boxes) : Len(Top.values[s]) # 1
  /\ stack' = SetTop([Top EXCEPT !.pc = "for", !.s = MinBox(Top.values), !.k = 1])
  /\ writes' = <<>>
  /\ UNCHANGED <<todo, grid, self, top, ret, result, assignments, logAtCall>>

\* Force with a slip: the copy is handed on as it is.
Force_Nothing(values, s, value) == values

\* new_sudoku = values.copy(); new_sudoku[s] = value
Force(values, s, value) == [values EXCEPT ![s] = <<value>>]

\* for value in values[s]: new_sudoku = ...; attempt = self.search(new_sudoku)
SearchBranch ==
  /\ stack # <<>>
  /\ Top.pc = "for"
  /\ Top.k <= Len(Top.values[Top.s])
  /\ LET value == Top.values[Top.s][Top.k]
         new_sudoku == Force(Top.values, Top.s, value)
     IN /\ stack' = Append(SetTop([Top EXCEPT !.pc = "attempt"]), Frame(new_sudoku))
        /\ writes' = <<[box |-> Top.s, old |-> Top.values[Top.s],
                        new |-> new_sudoku[Top.s], by |-> "search", src |-> Top.s]>>
  /\ ret' = Pending
  /\ UNCHANGED <<todo, grid, self, top, result, assignments, logAtCall>>

\* if attempt: return attempt
SearchAttemptReturn ==
  /\ stack # <<>>
  /\ Top.pc = "attempt"
  /\ ret # Pending
  /\ Truthy(ret)
  /\ Return(ret)

\* attempt is not true: the for loop goes on to the next character of values[s]
SearchAttemptNext ==
  /\ stack # <<>>
  /\ Top.pc = "attempt"
  /\ ret # Pending
  /\ ~Truthy(ret)
  /\ stack' = SetTop([Top EXCEPT !.pc = "for", !.k = @ + 1])
  /\ ret' = Pending
  /\ writes' = <<>>
  /\ UNCHANGED <<todo, grid, self, top, result, assignments, logAtCall>>

\* the for loop is over and the function ends without a return statement
SearchExhausted ==
  /\ stack # <<>>
  /\ Top.pc = "for"
  /\ Top.k > Len(Top.values[Top.s])
  /\ Return(None)

Next ==
  \/ SolveCall
  \/ SolveReturn
  \/ Eliminate
  \/ NakedTwins
  \/ OnlyChoice
  \/ ReduceCheck
  \/ SearchFailed
  \/ SearchSolved
  \/ SearchChoose
  \/ SearchBranch
  \/ SearchAttemptReturn
  \/ SearchAttemptNext
  \/ SearchExhausted

Spec == Init /\ [][Next]_vars

\* ------------------------------------------------------------ the claims

\* Every box holds one digit and every unit holds each of the digits once.
ValidBoard(values) ==
  /\ \A b \in Range(boxes) : Len(values[b]) = 1
  /\ \A i \in 1..Len(unitlist) : {values[b][1] : b \in Range(unitlist[i])} = Range(cols)

\* Two boxes of a common unit are given the same digit.
HasDuplicate(g) == \E b \in Range(boxes) : g[b] # 0 /\ \E p \in peers[b] : g[p] = g[b]

\* The number of boxes that do not hold exactly one candidate.
Unsolved(values) == Len(boxes) - CountLen(values, 1)

\* C1: whenever search, and hence solve, returns a board and not a failure value,
\* every box of that board holds exactly one digit and each of the 29 units holds
\* each digit 1-9 exactly once.
C1_ReturnedBoardIsSolved ==
  /\ Truthy(ret) => ValidBoard(ret.values)
  /\ Truthy(result) => ValidBoard(result.values)

\* C1 happens: a solve call whose search had to branch has returned a board.
C1_Witness ==
  /\ top = "done"
  /\ Truthy(result)
  /\ grid = Unstable

\* C2: search, and hence solve, reports failure with the single value False,
\* also when every candidate of the branching box has been tried without success.
C2_OneFailureValue ==
  /\ (ret # Pending /\ ~Truthy(ret)) => ret = False
  /\ (result # Pending /\ ~Truthy(result)) => result = False

\* C3: on a grid in which two boxes of a common unit are given the same digit,
\* solve returns False, the value of a contradiction, and never a board.
C3_DuplicateIsContradiction ==
  (top = "done" /\ HasDuplicate(grid)) => result = False

\* C3 happens: a solve call on a grid with a duplicate and with unknown boxes has
\* returned False.
C3_Witness ==
  /\ top = "done"
  /\ HasDuplicate(grid)
  /\ \E b \in Range(boxes) : grid[b] = 0
  /\ result = False

\* A step of search or of solve is possible.
CanStep ==
  IF stack = <<>> THEN ret # Pending
  ELSE \/ Top.pc \in {"eliminate", "naked_twins", "only_choice", "stalled", "reduced", "for"}
       \/ Top.pc = "attempt" /\ ret # Pending

C5_ReduceIsIdempotent ==
  (stack # <<>> /\ Top.pc = "reduced" /\ ~Top.failed) =>
    LET again == reduce_puzzle(Start(Top.values))
    IN ~again.failed /\ again.st.values = Top.values

\* C6, as claimed: within reduce_puzzle a box that holds a single digit keeps it:
\* no rule changes a box that holds one candidate.
C6_SolvedNeverChanges ==
  \A i \in 1..Len(writes) :
    (writes[i].by # "search" /\ Len(writes[i].old) = 1) => writes[i].new = writes[i].old

\* C6, as amended: within reduce_puzzle a box that holds a single digit never
\* gets several candidates and never another digit; a rule leaves it as it is
\* or empties it.
C6_SolvedOnlyEmptied ==
  \A i \in 1..Len(writes) :
    (writes[i].by # "search" /\ Len(writes[i].old) = 1) =>
       writes[i].new \in {writes[i].old, <<>>}

\* C6 happens: a rule has written to a box that held a single digit.
C6_Witness ==
  \E i \in 1..Len(writes) : writes[i].by # "search" /\ Len(writes[i].old) = 1

\* The changes ws[i..n] replayed on the board sn.values; sn.taken collects a
\* snapshot of the board after each change that leaves a single digit in its box.
RECURSIVE SnapshotsTo(_, _, _, _)
SnapshotsTo(sn, ws, i, n) ==
  IF DOMAIN sn # {} /\ i > n THEN sn
  ELSE LET after == [sn.values EXCEPT ![ws[i].box] = ws[i].new]
       IN SnapshotsTo([values |-> after,
                       taken  |-> IF Len(ws[i].new) = 1 THEN Append(sn.taken, after)
                                  ELSE sn.taken],
                      ws, i + 1, n)

\* The same for all the changes from ws[i] on, twenty at a time.
RECURSIVE SnapshotsFrom(_, _, _)
SnapshotsFrom(sn, ws, i) ==
  IF AtEnd(sn, i, ws) THEN sn
  ELSE SnapshotsFrom(SnapshotsTo(sn, ws, i, IF i + 19 < Len(ws) THEN i + 19 ELSE Len(ws)),
                     ws, i + 20)

Snapshots(values, ws) == SnapshotsFrom([values |-> values, taken |-> <<>>], ws, 1).taken

\* C7: every change of a board that leaves a new single digit in a box, made by
\* eliminate, only_choice, naked_twins or by search forcing the branching box,
\* appends one snapshot of the whole board at that moment to the log.
C7_EverySingleIsLogged ==
  [][ IF writes' = <<>> THEN assignments' = assignments
      ELSE assignments' = assignments \o Snapshots(Top.values, writes')
    ]_vars

\* The box lies on a diagonal unit.
OnDiagonal(s, d) == s \in Range(diag_units[d])

Diagonals(s) == Cardinality({d \in 1..Len(diag_units) : OnDiagonal(s, d)})

\* C8, as claimed: for every box of a grid, the peers of the box never contain it, and are exactly 20
\* for a box on no diagonal and at most 22 for a box on a diagonal.
C8_AtMost22Peers ==
  \A s \in DOMAIN grid :
    /\ s \notin peers[s]
    /\ Diagonals(s) = 0 => Cardinality(peers[s]) = 20
    /\ Diagonals(s) > 0 => Cardinality(peers[s]) <= 22

\* C8, as amended: for every box of a grid, the peers of the box never contain it, and are exactly 20
\* for a box on no diagonal, 26 for a box on one diagonal and 32 for the box on
\* both.
C8_PeerCounts ==
  \A s \in DOMAIN grid :
    /\ s \notin peers[s]
    /\ Diagonals(s) = 0 => Cardinality(peers[s]) = 20
    /\ Diagonals(s) = 1 => Cardinality(peers[s]) = 26
    /\ Diagonals(s) = 2 => Cardinality(peers[s]) = 32

\* C8 happens: eliminate, at a solved box of a diagonal, has removed its digit
\* from a peer that shares only the diagonal with it, one of its 26 peers.
C8_Witness ==
  \E i \in 1..Len(writes) :
    LET w == writes[i]
    IN /\ w.by = "eliminate"
       /\ Diagonals(w.src) = 1
       /\ Cardinality(peers[w.src]) = 26
       /\ w.box \in peers[w.src]
       /\ \A k \in 1..Len(unitlist) :
            (w.box \in Range(unitlist[k]) /\ w.src \in Range(unitlist[k]))
              => k > Len(unitlist) - Len(diag_units)

\* C9: when a solve call starts, the log holds no snapshot appended during an
\* earlier solve call, on whatever instance that call was made.
C9_LogScopedToCall == logAtCall = 0

\* The complete boards known to be valid: what the program's grid, the all-dots
\* grid and the grid Unstable solve to.
EmptySolved ==
  << 1, 2, 3, 4, 5, 6, 7, 8, 9,
     4, 5, 6, 7, 8, 9, 1, 2, 3,
     7, 8, 9, 1, 2, 3, 4, 5, 6,
     9, 3, 5, 2, 4, 1, 8, 6, 7,
     6, 1, 7, 5, 3, 8, 2, 9, 4,
     8, 4, 2, 6, 9, 7, 5, 3, 1,
     2, 9, 8, 3, 1, 4, 6, 7, 5,
     3, 7, 1, 8, 6, 5, 9, 4, 2,
     5, 6, 4, 9, 7, 2, 3, 1, 8 >>

UnstableSolved ==
  << 5, 6, 7, 2, 1, 4, 8, 9, 3,
     9, 3, 4, 8, 5, 6, 2, 7, 1,
     8, 2, 1, 7, 9, 3, 6, 5, 4,
     7, 5, 6, 4, 2, 1, 3, 8, 9,
     2, 4, 3, 6, 8, 9, 5, 1, 7,
     1, 8, 9, 5, 3, 7, 4, 2, 6,
     6, 1, 2, 3, 7, 8, 9, 4, 5,
     3, 9, 5, 1, 4, 2, 7, 6, 8,
     4, 7, 8, 9, 6, 5, 1, 3, 2 >>

Completions == {S \in {Solved, EmptySolved, UnstableSolved} : ValidBoard(grid_values(S))}

\* The complete board S is still possible on the board values.
Allows(values, S) == \A b \in Range(boxes) : In(S[b], values[b])

\* The grid g has a completion among the known ones.
HasCompletion(g) == \E S \in Completions : Allows(grid_values(g), S)

\* C10: on a well-formed grid that has a completion satisfying all 29 units,
\* solve returns a board and not a failure value; and no rule removes from a box
\* the digit that a valid completion of the board gives it: a completion that
\* the board of a search call allowed when the call was made is still allowed
\* by the board as propagation has left it.
C10_Complete ==
  /\ (top = "done" /\ HasCompletion(grid)) => Truthy(result)
  /\ \A i \in 1..Len(stack) : \A S \in Completions :
       Allows(stack[i].entry, S) => Allows(stack[i].values, S)

\* C10 happens: solve has returned a board for the program's grid, which gives
\* 17 boxes and has a completion.
C10_Witness ==
  /\ top = "done"
  /\ grid = diag_sudoku_grid
  /\ HasCompletion(grid)
  /\ Truthy(result)

====
